---------------------------- MODULE Spec2Model ----------------------------
(***************************************************************************)
(* JPG Optimizer Pro: the desktop application                              *)
(* (src/desktop/jpg_optimizer_pro.py) and the web application (src/app.py).*)
(*                                                                         *)
(* Four specifications share this module:                                  *)
(*   SpecICC   inject_icc_profile / _inject_icc_profile on byte strings    *)
(*   SpecFile  the per-file recompression pipeline (modes, encoder paths,  *)
(*             metadata, size-guard), desktop and web                      *)
(*   Spec      the desktop batch: UI thread, run thread and pool workers   *)
(*   SpecResolve  the pool's workers on one run's files, for every         *)
(*             selection, setting and naming template                      *)
(* A specification leaves the variables it does not use at their idle      *)
(* values.                                                                 *)
(***************************************************************************)
EXTENDS Integers, Sequences, FiniteSets, TLC

VARIABLES
    \* ---- SpecICC
    icc_pc,        \* "idle" | "ready" | "web" | "desktop"
    icc_jpeg,      \* the bytes handed to inject (web) / the file before (desktop)
    icc_data,      \* the profile handed to inject
    icc_ret,       \* web: the returned bytes; desktop: the file after the call
    icc_written,   \* desktop: open(filepath, 'wb') was reached
    icc_raised,    \* the call ended in an exception
    \* ---- SpecFile
    f_pc,          \* "idle" | "ready" | "done"
    f_cfg,         \* the settings and the installed tools
    f_src,         \* the source image: what metadata it carries
    f_env,         \* what the collaborators do on this file
    f_res,         \* the outcome of processing the file
    \* ---- SpecWeb: one press of the web application's button
    web_pc,               \* "idle" | "loop" | "stored"
    web_cfg,              \* the sidebar's settings and the installed tools
    uploaded_files,       \* uploaded_files: what each file is and meets
    web_i,                \* the loop's position in uploaded_files
    results,              \* results
    web_total_original,   \* total_original of app.py
    web_total_optimized,  \* total_optimized of app.py
    session_state,        \* st.session_state, <<>> before it is written
    \* ---- Spec: the desktop application's state
    selected_paths,       \* self.selected_paths
    output_folder,        \* self.output_folder, <<>> for None
    preserve_subfolders,  \* self.preserve_subfolders
    overwrite_original,   \* self.overwrite_original
    naming_template,      \* self.naming_template
    is_processing,        \* self.is_processing
    file_counter,         \* self.file_counter
    processed_count,      \* self.processed_count
    total_original,       \* self.total_original
    total_saved,          \* self.total_saved
    total_count,          \* self.total_count
    disk_files,           \* the files on disk
    disk_dirs,            \* the directories os.makedirs created
    cpu_count,            \* os.cpu_count()
    runs,                 \* how many runs were started
    run_pc,               \* the run thread: "none" | "find" | "pool" | "ended" | "crashed"
    tasks,                \* the futures of the pool, in submission order
    finish_pending        \* root.after(0, self.finish_optimization) is queued

iccVars == <<icc_pc, icc_jpeg, icc_data, icc_ret, icc_written, icc_raised>>
fileVars == <<f_pc, f_cfg, f_src, f_env, f_res>>
webVars == <<web_pc, web_cfg, uploaded_files, web_i, results, web_total_original,
             web_total_optimized, session_state>>
settingVars == <<output_folder, preserve_subfolders, overwrite_original, naming_template>>
statVars == <<processed_count, total_original, total_saved, total_count>>
batchVars == <<selected_paths, settingVars, is_processing, file_counter, statVars,
               disk_files, disk_dirs, cpu_count, runs, run_pc, tasks, finish_pending>>

vars == <<iccVars, fileVars, webVars, batchVars>>

Min(a, b) == IF a <= b THEN a ELSE b

(***************************************************************************)
(* Byte strings are sequences of 0..255.                                   *)
(***************************************************************************)
SOI == <<255, 216>>            \* b'\xff\xd8'
APP2 == <<255, 226>>           \* b'\xff\xe2'
\* b'ICC_PROFILE\x00'
ICC_SIG == <<73, 67, 67, 95, 80, 82, 79, 70, 73, 76, 69, 0>>

\* s[:n]
Take(s, n) == SubSeq(s, 1, Min(n, Len(s)))
\* s[n:]
Drop(s, n) == IF n >= Len(s) THEN <<>> ELSE SubSeq(s, n + 1, Len(s))

\* n.to_bytes(2, 'big'), for 0 <= n < 65536
to_bytes2(n) == <<n \div 256, n % 256>>

(***************************************************************************)
(* The model's bounds.  ChunkScale stands for the 65519 bytes of            *)
(* max_chunk_data and ByteLimit for the 255 that bytes([...]) accepts: the  *)
(* chunking arithmetic is the code's, on profiles short enough to          *)
(* enumerate.                                                              *)
(***************************************************************************)
ChunkScale == 2
ByteLimit == 3
MaxProfileLen == 7

\* max_chunk_data = 65533 - 14
max_chunk_data == ChunkScale

\* jpeg_data[:2] != b'\xff\xd8' is the guard; this is its negation
has_jpeg_signature_first_byte_only(jpeg_data) == Take(jpeg_data, 1) = <<255>>
has_jpeg_signature(jpeg_data) == Take(jpeg_data, 2) = SOI

\* icc_data[i * max_chunk_data:(i + 1) * max_chunk_data]
chunk_data_short_slice(icc, i) ==
    SubSeq(icc, i * max_chunk_data + 1, Min((i + 1) * max_chunk_data - 1, Len(icc)))
chunk_data(icc, i) ==
    SubSeq(icc, i * max_chunk_data + 1, Min((i + 1) * max_chunk_data, Len(icc)))

\* b'ICC_PROFILE\x00' + bytes([i + 1, total_chunks])
chunk_header_zero_based(i, total_chunks) == ICC_SIG \o <<i, total_chunks>>
chunk_header(i, total_chunks) == ICC_SIG \o <<i + 1, total_chunks>>

\* b'\xff\xe2' + marker_length.to_bytes(2, 'big') + marker_data
app2_marker(marker_data) == APP2 \o to_bytes2(Len(marker_data) + 2) \o marker_data

\* the for loop over range(total_chunks) followed by b''.join(chunks)
RECURSIVE join_chunks(_, _, _)
join_chunks(icc, i, total_chunks) ==
    IF i >= total_chunks THEN <<>>
    ELSE app2_marker(chunk_header(i, total_chunks) \o chunk_data(icc, i))
         \o join_chunks(icc, i + 1, total_chunks)

\* The APP2 block for a non-empty profile.  bytes([i + 1, total_chunks])
\* raises ValueError when total_chunks exceeds what a byte holds; it does so
\* in the first iteration, before anything is returned or written.
app2_segment(icc) ==
    IF Len(icc) <= max_chunk_data
    THEN [raised |-> FALSE, seg |-> app2_marker(ICC_SIG \o <<1, 1>> \o icc)]
    ELSE LET total_chunks == (Len(icc) + max_chunk_data - 1) \div max_chunk_data
         IN  IF total_chunks > ByteLimit
             THEN [raised |-> TRUE, seg |-> <<>>]
             ELSE [raised |-> FALSE, seg |-> join_chunks(icc, 0, total_chunks)]

\* app.py inject_icc_profile: the returned bytes, or the exception
inject_icc_profile(jpeg_data, icc) ==
    IF icc = <<>> THEN [raised |-> FALSE, bytes |-> jpeg_data]
    ELSE IF ~has_jpeg_signature(jpeg_data) THEN [raised |-> FALSE, bytes |-> jpeg_data]
    ELSE LET b == app2_segment(icc)
         IN  IF b.raised THEN [raised |-> TRUE, bytes |-> jpeg_data]
             ELSE [raised |-> FALSE,
                   bytes |-> Take(jpeg_data, 2) \o b.seg \o Drop(jpeg_data, 2)]

\* desktop _inject_icc_profile: the file's content afterwards, whether the
\* file was opened for writing, and whether the call raised
desktop_inject_icc_profile(file_bytes, icc) ==
    IF icc = <<>> THEN [raised |-> FALSE, written |-> FALSE, bytes |-> file_bytes]
    ELSE IF ~has_jpeg_signature(file_bytes)
         THEN [raised |-> FALSE, written |-> FALSE, bytes |-> file_bytes]
    ELSE LET b == app2_segment(icc)
         IN  IF b.raised THEN [raised |-> TRUE, written |-> FALSE, bytes |-> file_bytes]
             ELSE [raised |-> FALSE, written |-> TRUE,
                   bytes |-> Take(file_bytes, 2) \o b.seg \o Drop(file_bytes, 2)]

(***************************************************************************)
(* Inputs of SpecICC.                                                      *)
(***************************************************************************)
ProfileBytes == {65, 255}

RECURSIVE SeqsUpTo(_, _)
SeqsUpTo(S, n) ==
    IF n = 0 THEN {<<>>}
    ELSE LET shorter == SeqsUpTo(S, n - 1)
         IN  shorter \cup {Append(s, x) : s \in {t \in shorter : Len(t) = n - 1}, x \in S}

Profiles == SeqsUpTo(ProfileBytes, MaxProfileLen)

EOI == <<255, 217>>
\* a quantisation-table segment, length 3, one payload byte
DQT1 == <<255, 219, 0, 3, 7>>
\* an APP2 ICC_PROFILE segment already in the stream: chunk 1 of 1, data <<67>>
OLD_ICC == <<255, 226, 0, 17>> \o ICC_SIG \o <<1, 1, 67>>

JpegInputs ==
    { <<>>, <<255>>, <<255, 217>>, <<137, 80, 78, 71>>,     \* not JPEG
      SOI, SOI \o EOI, SOI \o DQT1 \o EOI,                    \* JPEG, no profile
      SOI \o OLD_ICC \o DQT1 \o EOI }                         \* JPEG with a profile

BatchIdle ==
    /\ selected_paths = <<>> /\ output_folder = <<>> /\ preserve_subfolders = TRUE
    /\ overwrite_original = FALSE /\ naming_template = <<>> /\ is_processing = FALSE
    /\ file_counter = 0 /\ processed_count = 0 /\ total_original = 0 /\ total_saved = 0
    /\ total_count = 0 /\ disk_files = {} /\ disk_dirs = {} /\ cpu_count = 0 /\ runs = 0
    /\ run_pc = "none" /\ tasks = <<>> /\ finish_pending = FALSE

WebIdle ==
    /\ web_pc = "idle" /\ web_cfg = <<>> /\ uploaded_files = <<>> /\ web_i = 0
    /\ results = <<>> /\ web_total_original = 0 /\ web_total_optimized = 0
    /\ session_state = <<>>

FileIdle ==
    /\ f_pc = "idle" /\ f_cfg = <<>> /\ f_src = <<>> /\ f_env = <<>> /\ f_res = <<>>

ICCIdle ==
    /\ icc_pc = "idle" /\ icc_jpeg = <<>> /\ icc_data = <<>>
    /\ icc_ret = <<>> /\ icc_written = FALSE /\ icc_raised = FALSE

ICCInit ==
    /\ FileIdle /\ WebIdle /\ BatchIdle
    /\ icc_pc = "ready"
    /\ icc_jpeg \in JpegInputs
    /\ icc_data \in Profiles
    /\ icc_ret = <<>> /\ icc_written = FALSE /\ icc_raised = FALSE

WebInject ==
    /\ icc_pc = "ready"
    /\ LET r == inject_icc_profile(icc_jpeg, icc_data)
       IN  /\ icc_ret' = r.bytes
           /\ icc_raised' = r.raised
    /\ icc_pc' = "web"
    /\ UNCHANGED <<icc_jpeg, icc_data, icc_written, fileVars, webVars, batchVars>>

DesktopInject ==
    /\ icc_pc = "ready"
    /\ LET r == desktop_inject_icc_profile(icc_jpeg, icc_data)
       IN  /\ icc_ret' = r.bytes
           /\ icc_raised' = r.raised
           /\ icc_written' = r.written
    /\ icc_pc' = "desktop"
    /\ UNCHANGED <<icc_jpeg, icc_data, fileVars, webVars, batchVars>>

ICCNext == WebInject \/ DesktopInject

SpecICC == ICCInit /\ [][ICCNext]_vars


(***************************************************************************)
(* The per-file pipeline.                                                  *)
(*                                                                         *)
(* A JPEG file is the record of what the pipeline can tell about it: who   *)
(* produced the pixel stream (pix), the encoder settings asked for (q,     *)
(* sub, sharp), whether it carries EXIF and an ICC profile, and its size.  *)
(* A file's size is the size of its pixel stream plus one unit for each    *)
(* metadata block it carries.                                              *)
(***************************************************************************)
OrigSize == 4
MaxEncSize == 5

MODE_LOSSLESS == "lossless"
MODE_BALANCED == "balanced"
MODE_MAXIMUM == "maximum"

Absent == [pix |-> "absent"]
Partial == [pix |-> "partial"]
Exists(c) == c.pix # "absent"

b2n(b) == IF b THEN 1 ELSE 0

original_content(src) ==
    [pix |-> "orig", q |-> 0, sub |-> "orig", sharp |-> FALSE,
     exif |-> src.exif, icc |-> src.icc, size |-> OrigSize]

encoded(pix, q, sub, sharp, exif, icc, enc) ==
    [pix |-> pix, q |-> q, sub |-> sub, sharp |-> sharp,
     exif |-> exif, icc |-> icc, size |-> enc + b2n(exif) + b2n(icc)]

\* piexif.insert(piexif.dump(original_exif), temp_jpg)
with_exif(c) == [c EXCEPT !.exif = TRUE, !.size = @ + 1]
\* _inject_icc_profile(temp, icc_profile) on a stream that starts with FFD8;
\* the variant leaves the profile out of the size that is compared
with_icc_unmeasured(c) == [c EXCEPT !.icc = TRUE]
with_icc(c) == [c EXCEPT !.icc = TRUE, !.size = @ + 1]

\* The files one call touches: input_path, output_path, output_path + '.tmp'
\* and output_path + '.ppm'.  When output_path = input_path the two are one
\* file, kept in .input.
disk0(src) ==
    [input |-> original_content(src), output |-> Absent, tmp |-> Absent, ppm |-> Absent]

put_output(d, same, c) ==
    IF same THEN [d EXCEPT !.input = c] ELSE [d EXCEPT !.output = c]
get_output(d, same) == IF same THEN d.input ELSE d.output

(***************************************************************************)
(* What the collaborators do on one file: at most one of them fails        *)
(* (fault), and the encoder or transcoder that runs produces a pixel       *)
(* stream of size enc.                                                     *)
(*   pil_open  Image.open raises          icc_read  the profile is not read *)
(*   exif      piexif.load/insert raises  inject    the profile needs more  *)
(*   jpegtran, djpeg, cjpeg  non-zero exit          than 255 chunks         *)
(*             or timeout                 fs        the write into the      *)
(*                                                  destination raises      *)
(***************************************************************************)
Faults == {"none", "pil_open", "icc_read", "exif", "inject",
           "jpegtran", "djpeg", "cjpeg", "fs"}

\* subprocess.run(cmd, check=True, capture_output=True, timeout=...) raises
\* CalledProcessError on a non-zero exit and TimeoutExpired on a timeout;
\* with check left out the exit status is ignored.
tool_failed_unchecked(e, tool) == FALSE
tool_failed(e, tool) == e.fault = tool

\* desktop _extract_icc_profile(filepath): a profile came back
extract_icc_profile(src, e) == src.icc /\ e.fault \notin {"pil_open", "icc_read"}
\* img.info.get('icc_profile') on an opened image
info_icc_profile(src, e) == src.icc /\ e.fault # "icc_read"

\* The exception leaves the step that was logged last; err names that step.
Raise(d, log) ==
    [raised |-> TRUE, original |-> 0, saved |-> 0, new_size |-> 0,
     copied |-> FALSE, disk |-> d, log |-> log, err |-> log[Len(log)]]
Return(d, log, original, saved, new_size, copied) ==
    [raised |-> FALSE, original |-> original, saved |-> saved, new_size |-> new_size,
     copied |-> copied, disk |-> d, log |-> log, err |-> "none"]

\* optimize_maximum's Pillow branch: new_size = os.path.getsize(temp_path);
\* shutil.move(temp_path, output_path); return (original_size, original_size - new_size)
move_unconditionally(d, same, e, log) ==
    LET new_size == d.tmp.size
        log1 == log \o <<"getsize", "move">>
    IN  IF e.fault = "fs" THEN Raise(d, log1)
        ELSE Return(put_output([d EXCEPT !.tmp = Absent], same, d.tmp), log1,
                    OrigSize, OrigSize - new_size, new_size, FALSE)

\* new_size = os.path.getsize(temp_path); if new_size < original_size: move,
\* else remove the candidate and copy the original unless the paths agree
size_guard(d, same, e, log) ==
    LET new_size == d.tmp.size
        log1 == Append(log, "getsize")
    IN  IF new_size < OrigSize
        THEN IF e.fault = "fs" THEN Raise(d, Append(log1, "move"))
             ELSE Return(put_output([d EXCEPT !.tmp = Absent], same, d.tmp),
                         Append(log1, "move"), OrigSize, OrigSize - new_size,
                         new_size, FALSE)
        ELSE LET d1 == [d EXCEPT !.tmp = Absent]
                 log2 == Append(log1, "remove_tmp")
             IN  IF same THEN Return(d1, log2, OrigSize, 0, new_size, FALSE)
                 ELSE IF e.fault = "fs" THEN Raise(d1, Append(log2, "copy2"))
                 ELSE Return(put_output(d1, same, d1.input), Append(log2, "copy2"),
                             OrigSize, 0, new_size, TRUE)

\* except Exception as e: if os.path.exists(temp_path): os.remove(temp_path); raise e
except_remove_temp(r) ==
    IF r.raised /\ Exists(r.disk.tmp)
    THEN [r EXCEPT !.disk.tmp = Absent, !.log = Append(@, "remove_tmp")]
    ELSE r

\* finally: remove temp_ppm and temp_jpg when they exist
finally_cleanup(r) ==
    LET r1 == IF Exists(r.disk.ppm)
              THEN [r EXCEPT !.disk.ppm = Absent, !.log = Append(@, "remove_ppm")]
              ELSE r
    IN  IF Exists(r1.disk.tmp)
        THEN [r1 EXCEPT !.disk.tmp = Absent, !.log = Append(@, "remove_tmp")]
        ELSE r1

\* optimize_lossless, the jpegtran branch
lossless_inject_never(cfg, icc_profile) == FALSE
lossless_inject(cfg, icc_profile) == cfg.remove_metadata /\ icc_profile

optimize_lossless_jpegtran(cfg, src, e) ==
    LET d0 == disk0(src)
        icc_profile == extract_icc_profile(src, e)
        log0 == <<"extract_icc", "jpegtran">>
        keep == ~cfg.remove_metadata          \* -copy all, else -copy none
    IN  IF tool_failed(e, "jpegtran")
        THEN except_remove_temp(Raise([d0 EXCEPT !.tmp = Partial], log0))
        ELSE LET t == encoded("jpegtran", 0, "orig", FALSE,
                              keep /\ src.exif, keep /\ src.icc, e.enc)
                 d1 == [d0 EXCEPT !.tmp = t]
             IN  IF lossless_inject(cfg, icc_profile)
                 THEN IF e.fault = "inject"
                      THEN except_remove_temp(Raise(d1, Append(log0, "inject_icc")))
                      ELSE except_remove_temp(
                               size_guard([d1 EXCEPT !.tmp = with_icc(t)], cfg.same_path,
                                          e, Append(log0, "inject_icc")))
                 ELSE except_remove_temp(size_guard(d1, cfg.same_path, e, log0))

\* optimize_lossless, the Pillow branch (quality 100, no subsampling argument)
optimize_lossless_pillow(cfg, src, e) ==
    LET d0 == disk0(src)
    IN  IF e.fault = "pil_open" THEN Raise(d0, <<"open">>)
        ELSE LET exif_data == ~cfg.remove_metadata /\ src.exif
                 icc_profile == info_icc_profile(src, e)
                 t == encoded("pillow", 100, "default", FALSE, exif_data, icc_profile, e.enc)
             IN  size_guard([d0 EXCEPT !.tmp = t], cfg.same_path, e, <<"open", "save">>)

optimize_lossless(cfg, src, e) ==
    IF cfg.has_jpegtran THEN optimize_lossless_jpegtran(cfg, src, e)
    ELSE optimize_lossless_pillow(cfg, src, e)

\* _optimize_with_mozjpeg: djpeg to a PPM, cjpeg from it, EXIF, ICC, size-guard
optimize_with_mozjpeg(cfg, src, e, quality) ==
    LET d0 == disk0(src)
        icc_profile == extract_icc_profile(src, e)
        log0 == <<"extract_icc", "djpeg">>
    IN  IF tool_failed(e, "djpeg")
        THEN finally_cleanup(Raise([d0 EXCEPT !.ppm = Partial], log0))
        ELSE
        LET d1 == [d0 EXCEPT !.ppm = [pix |-> "ppm"]]
            log1 == Append(log0, "cjpeg")
        IN  IF tool_failed(e, "cjpeg")
            THEN finally_cleanup(Raise([d1 EXCEPT !.tmp = Partial], log1))
            ELSE
            LET sub == IF quality >= 90 THEN "444" ELSE "default"
                t0 == encoded("cjpeg", quality, sub, FALSE, FALSE, FALSE, e.enc)
                insert_exif == ~cfg.remove_metadata /\ e.fault # "exif" /\ src.exif
                t1 == IF insert_exif THEN with_exif(t0) ELSE t0
                log2 == IF ~cfg.remove_metadata THEN Append(log1, "exif") ELSE log1
            IN  IF icc_profile
                THEN IF e.fault = "inject"
                     THEN finally_cleanup(Raise([d1 EXCEPT !.tmp = t1],
                                                Append(log2, "inject_icc")))
                     ELSE finally_cleanup(
                              size_guard([d1 EXCEPT !.tmp = with_icc(t1)], cfg.same_path,
                                         e, Append(log2, "inject_icc")))
                ELSE finally_cleanup(size_guard([d1 EXCEPT !.tmp = t1], cfg.same_path, e, log2))

\* _optimize_with_pillow
optimize_with_pillow(cfg, src, e, quality) ==
    LET d0 == disk0(src)
    IN  IF e.fault = "pil_open" THEN Raise(d0, <<"open">>)
        ELSE LET exif_data == ~cfg.remove_metadata /\ src.exif
                 icc_profile == info_icc_profile(src, e)
                 t == encoded("pillow", quality, IF quality >= 90 THEN "444" ELSE "420",
                              quality < 90, exif_data, icc_profile, e.enc)
             IN  size_guard([d0 EXCEPT !.tmp = t], cfg.same_path, e, <<"open", "save">>)

external_encoder(cfg) == cfg.has_mozjpeg /\ cfg.use_mozjpeg

optimize_balanced(cfg, src, e, quality) ==
    IF external_encoder(cfg) THEN optimize_with_mozjpeg(cfg, src, e, quality)
    ELSE optimize_with_pillow(cfg, src, e, quality)

\* optimize_maximum: cjpeg at 70, or its own Pillow branch: no EXIF read, no
\* sharpening, and the candidate is moved to the destination whatever its size
optimize_maximum(cfg, src, e) ==
    IF external_encoder(cfg) THEN optimize_with_mozjpeg(cfg, src, e, 70)
    ELSE LET d0 == disk0(src)
         IN  IF e.fault = "pil_open" THEN Raise(d0, <<"open">>)
             ELSE LET icc_profile == info_icc_profile(src, e)
                      t == encoded("pillow", 70, "420", FALSE, FALSE, icc_profile, e.enc)
                  IN  move_unconditionally([d0 EXCEPT !.tmp = t], cfg.same_path, e,
                                         <<"open", "save">>)

\* optimize_file: the mode's function inside try / except Exception
optimize_mode(cfg, src, e) ==
    CASE cfg.mode = MODE_LOSSLESS -> optimize_lossless(cfg, src, e)
      [] cfg.mode = MODE_BALANCED -> optimize_balanced(cfg, src, e, cfg.quality)
      [] OTHER -> optimize_maximum(cfg, src, e)

\* optimize_file without its "except Exception": what the mode's function
\* raises leaves the worker and is raised again by future.result().
optimize_file_no_except(cfg, src, e) ==
    LET r == optimize_mode(cfg, src, e)
    IN  [ok |-> ~r.raised, propagated |-> r.raised,
         original |-> r.original, saved |-> r.saved,
         new_size |-> r.new_size, copied |-> r.copied,
         out |-> get_output(r.disk, cfg.same_path), disk |-> r.disk, log |-> r.log,
         err |-> r.err]

\* try: ... return (original, saved, filepath, output_path)
\* except Exception as e: return (0, 0, filepath, "", str(e))
\* ok tells the 4-tuple from the 5-tuple; nothing is propagated to the caller.
optimize_file(cfg, src, e) ==
    LET r == optimize_mode(cfg, src, e)
    IN  [ok |-> ~r.raised, propagated |-> FALSE,
         original |-> r.original, saved |-> r.saved,
         new_size |-> r.new_size, copied |-> r.copied,
         out |-> get_output(r.disk, cfg.same_path), disk |-> r.disk, log |-> r.log,
         err |-> r.err]

(***************************************************************************)
(* The web application's pipeline (src/app.py): bytes in, bytes out, the   *)
(* temporary files live in a TemporaryDirectory.                           *)
(***************************************************************************)
WebRaise(log) == [raised |-> TRUE, bytes |-> Absent, log |-> log, err |-> log[Len(log)]]
WebReturn(c, log) == [raised |-> FALSE, bytes |-> c, log |-> log, err |-> "none"]

\* app.py optimize_lossless: the original bytes when jpegtran is not installed
web_optimize_lossless(cfg, src, e) ==
    IF ~cfg.has_jpegtran THEN WebReturn(original_content(src), <<>>)
    ELSE LET icc_profile == info_icc_profile(src, e)
             log0 == <<"extract_icc", "jpegtran">>
             keep == ~cfg.remove_metadata
         IN  IF e.fault = "fs" THEN WebRaise(<<"extract_icc">>)
             ELSE IF tool_failed(e, "jpegtran") THEN WebRaise(log0)
             ELSE LET t == encoded("jpegtran", 0, "orig", FALSE,
                                   keep /\ src.exif, keep /\ src.icc, e.enc)
                  IN  IF cfg.remove_metadata /\ icc_profile
                      THEN IF e.fault = "inject" THEN WebRaise(Append(log0, "inject_icc"))
                           ELSE WebReturn(with_icc(t), Append(log0, "inject_icc"))
                      ELSE WebReturn(t, log0)

\* app.py optimize_with_mozjpeg
web_optimize_with_mozjpeg(cfg, src, e, quality) ==
    LET icc_profile == info_icc_profile(src, e)
        log0 == <<"extract_icc", "djpeg">>
        log1 == Append(log0, "cjpeg")
    IN  IF e.fault = "fs" THEN WebRaise(<<"extract_icc">>)
        ELSE IF tool_failed(e, "djpeg") THEN WebRaise(log0)
        ELSE IF tool_failed(e, "cjpeg") THEN WebRaise(log1)
        ELSE LET sub == IF quality >= 90 THEN "444" ELSE "default"
                 t0 == encoded("cjpeg", quality, sub, FALSE, FALSE, FALSE, e.enc)
                 insert_exif == ~cfg.remove_metadata /\ e.fault # "exif" /\ src.exif
                 t1 == IF insert_exif THEN with_exif(t0) ELSE t0
                 log2 == IF ~cfg.remove_metadata THEN Append(log1, "exif") ELSE log1
             IN  IF icc_profile
                 THEN IF e.fault = "inject" THEN WebRaise(Append(log2, "inject_icc"))
                      ELSE WebReturn(with_icc(t1), Append(log2, "inject_icc"))
                 ELSE WebReturn(t1, log2)

\* app.py optimize_with_pillow
web_optimize_with_pillow(cfg, src, e, quality) ==
    LET icc_profile == info_icc_profile(src, e)
        exif_data == ~cfg.remove_metadata /\ src.exif
    IN  WebReturn(encoded("pillow", quality, IF quality >= 90 THEN "444" ELSE "420",
                          quality < 90, exif_data, icc_profile, e.enc),
                  <<"extract_icc", "save">>)

\* app.py main, the body of the loop over uploaded_files: read, open, the
\* mode's function, then the size-guard on the returned bytes
web_optimize_file(cfg, src, e) ==
    LET failed(log, err) ==
            [ok |-> FALSE, original |-> 0, saved |-> 0, new_size |-> 0,
             copied |-> FALSE, out |-> Absent, disk |-> disk0(src), log |-> log,
             err |-> err]
    IN  IF e.fault = "pil_open" THEN failed(<<"open">>, "open")
        ELSE
        LET r == CASE cfg.mode = MODE_LOSSLESS -> web_optimize_lossless(cfg, src, e)
                   [] cfg.mode = MODE_MAXIMUM ->
                        IF cfg.has_mozjpeg THEN web_optimize_with_mozjpeg(cfg, src, e, 70)
                        ELSE web_optimize_with_pillow(cfg, src, e, 70)
                   [] OTHER ->
                        IF cfg.has_mozjpeg
                        THEN web_optimize_with_mozjpeg(cfg, src, e, cfg.quality)
                        ELSE web_optimize_with_pillow(cfg, src, e, cfg.quality)
        IN  IF r.raised THEN failed(<<"open">> \o r.log, r.err)
            ELSE LET optimized_size == r.bytes.size
                     keep_original == optimized_size >= OrigSize
                     optimized_bytes == IF keep_original THEN original_content(src)
                                        ELSE r.bytes
                 IN  [ok |-> TRUE, original |-> OrigSize,
                      saved |-> OrigSize - optimized_bytes.size,
                      new_size |-> optimized_size, copied |-> FALSE,
                      out |-> optimized_bytes, disk |-> disk0(src),
                      log |-> <<"open">> \o r.log \o <<"getsize">>, err |-> "none"]

(***************************************************************************)
(* SpecFile: one file through one of the two pipelines, for every setting, *)
(* every source and everything the collaborators can do.                   *)
(***************************************************************************)
Qualities == {60, 70, 89, 90, 100}

Modes == {MODE_LOSSLESS, MODE_BALANCED, MODE_MAXIMUM}

\* The quality slider is read in Balanced mode only; its default is 85.
QualitiesOf(mode) == IF mode = MODE_BALANCED THEN Qualities ELSE {85}

DesktopConfigs ==
    { [app |-> "desktop", mode |-> m, quality |-> q, remove_metadata |-> rm,
       has_jpegtran |-> jt, has_mozjpeg |-> mz, use_mozjpeg |-> um, same_path |-> sp] :
      m \in Modes, q \in Qualities \cup {85}, rm \in BOOLEAN, jt \in BOOLEAN,
      mz \in BOOLEAN, um \in BOOLEAN, sp \in BOOLEAN }

\* The web application has no encoder toggle and writes no destination file.
WebConfigs ==
    { [app |-> "web", mode |-> m, quality |-> q, remove_metadata |-> rm,
       has_jpegtran |-> jt, has_mozjpeg |-> mz, use_mozjpeg |-> TRUE, same_path |-> FALSE] :
      m \in Modes, q \in Qualities \cup {85}, rm \in BOOLEAN, jt \in BOOLEAN,
      mz \in BOOLEAN }

Configs == {c \in DesktopConfigs \cup WebConfigs : c.quality \in QualitiesOf(c.mode)}

Sources == [exif : BOOLEAN, icc : BOOLEAN]

Envs == [fault : Faults, enc : 1..MaxEncSize]

FileInit ==
    /\ ICCIdle /\ WebIdle /\ BatchIdle
    /\ f_pc = "ready"
    /\ f_cfg \in Configs
    /\ f_src \in Sources
    /\ f_env \in Envs
    /\ f_res = <<>>

DesktopOptimizeFile ==
    /\ f_pc = "ready"
    /\ f_cfg.app = "desktop"
    /\ f_res' = optimize_file(f_cfg, f_src, f_env)
    /\ f_pc' = "done"
    /\ UNCHANGED <<f_cfg, f_src, f_env, iccVars, webVars, batchVars>>

WebOptimizeFile ==
    /\ f_pc = "ready"
    /\ f_cfg.app = "web"
    /\ f_res' = web_optimize_file(f_cfg, f_src, f_env)
    /\ f_pc' = "done"
    /\ UNCHANGED <<f_cfg, f_src, f_env, iccVars, webVars, batchVars>>

FileNext == DesktopOptimizeFile \/ WebOptimizeFile

SpecFile == FileInit /\ [][FileNext]_vars

(***************************************************************************)
(* SpecWeb: one press of the web application's button, the loop over the   *)
(* uploaded files and the totals it stores.                                *)
(***************************************************************************)
MaxUploads == 2

\* The settings of a batch; the quality slider at its default.
WebBatchConfigs == {c \in WebConfigs : c.quality = 85}

\* What an uploaded file is and meets: uploaded_file.read() may raise, and
\* so may Image.open or a tool.
UploadFaults == {"none", "read", "pil_open", "djpeg"}
Uploads == [src : Sources, env : [fault : UploadFaults, enc : {OrigSize - 1, OrigSize + 1}]]

WebBatchInit ==
    /\ ICCIdle /\ FileIdle /\ BatchIdle
    /\ web_pc = "loop"
    /\ web_cfg \in WebBatchConfigs
    /\ uploaded_files \in SeqsUpTo(Uploads, MaxUploads) \ {<<>>}
    /\ web_i = 1
    /\ results = <<>>
    /\ web_total_original = 0
    /\ web_total_optimized = 0
    /\ session_state = <<>>

\* one pass of "for i, uploaded_file in enumerate(uploaded_files)": the try
\* block, whose except reports the file and goes on
web_batch_file ==
    /\ web_pc = "loop"
    /\ web_i <= Len(uploaded_files)
    /\ LET uploaded_file == uploaded_files[web_i]
           r == web_optimize_file(web_cfg, uploaded_file.src, uploaded_file.env)
       IN  IF uploaded_file.env.fault = "read"
           THEN UNCHANGED <<web_total_original, web_total_optimized, results>>
           ELSE /\ web_total_original' = web_total_original + OrigSize
                /\ IF r.ok
                   THEN /\ web_total_optimized' = web_total_optimized + r.out.size
                        /\ results' = Append(results,
                                             [original_size |-> r.original,
                                              optimized_size |-> r.out.size,
                                              saved |-> r.original - r.out.size])
                   ELSE UNCHANGED <<web_total_optimized, results>>
    /\ web_i' = web_i + 1
    /\ UNCHANGED <<iccVars, fileVars, batchVars, web_pc, web_cfg, uploaded_files,
                   session_state>>

\* after the loop: st.session_state['results'], ['total_original'],
\* ['total_optimized']
web_batch_store ==
    /\ web_pc = "loop"
    /\ web_i > Len(uploaded_files)
    /\ session_state' = [results |-> results,
                         total_original |-> web_total_original,
                         total_optimized |-> web_total_optimized]
    /\ web_pc' = "stored"
    /\ UNCHANGED <<iccVars, fileVars, batchVars, web_cfg, uploaded_files, web_i,
                   results, web_total_original, web_total_optimized>>

WebBatchNext == web_batch_file \/ web_batch_store

SpecWeb == WebBatchInit /\ [][WebBatchNext]_vars

(***************************************************************************)
(* The desktop batch.                                                      *)
(*                                                                         *)
(* A path is the record of its directory (the sequence of its components,  *)
(* from the root), its file name without extension (a sequence of pieces   *)
(* of text, so that formatting a template is concatenation) and its        *)
(* extension.  A directory has no file name.                               *)
(***************************************************************************)
MaxSelected == 2      \* entries in the selection list
MaxCpu == 2           \* os.cpu_count()
MaxRuns == 1          \* runs started
MaxClock == 1         \* seconds a run lasts

Path(dir, file, ext) == [dir |-> dir, file |-> file, ext |-> ext]
NoPath == Path(<<>>, <<>>, "")

F1 == Path(<<"a">>, <<"photo">>, ".jpg")
F2 == Path(<<"b">>, <<"photo">>, ".jpg")
DirA == Path(<<"a">>, <<>>, "")
OutDir == <<"out">>

SourceFiles == {F1, F2}
Folders == {DirA}

\* the characters of a folder name; a name that shares no first characters
\* with another name of the model is one piece
chars(name) ==
    CASE name = "ab" -> <<"a", "b">>
      [] OTHER -> <<name>>

\* the text of a path, piece by piece
RECURSIVE dir_str(_)
dir_str(d) == IF d = <<>> THEN <<>> ELSE <<"/">> \o chars(Head(d)) \o dir_str(Tail(d))
path_str(p) ==
    dir_str(p.dir) \o (IF p.file = <<>> THEN <<>> ELSE <<"/">> \o p.file \o <<p.ext>>)

\* str.startswith
startswith(s, prefix) == Len(prefix) <= Len(s) /\ SubSeq(s, 1, Len(prefix)) = prefix

\* os.path.relpath(path, start), both absolute directories
RECURSIVE common_prefix(_, _)
common_prefix(a, b) ==
    IF a = <<>> \/ b = <<>> \/ Head(a) # Head(b) THEN 0
    ELSE 1 + common_prefix(Tail(a), Tail(b))
relpath(path, start) ==
    LET c == common_prefix(path, start)
        rel == [i \in 1..(Len(start) - c) |-> ".."] \o Drop(path, c)
    IN  IF rel = <<>> THEN <<".">> ELSE rel

\* os.path.join(a, b), b relative
join(a, b) == a \o b

\* The file system's name resolution: "." names the directory itself and
\* ".." its parent.
RECURSIVE resolve_dir(_, _)
resolve_dir(d, acc) ==
    IF d = <<>> THEN acc
    ELSE IF Head(d) = "." THEN resolve_dir(Tail(d), acc)
    ELSE IF Head(d) = ".." THEN
        resolve_dir(Tail(d), IF acc = <<>> THEN <<>> ELSE SubSeq(acc, 1, Len(acc) - 1))
    ELSE resolve_dir(Tail(d), Append(acc, Head(d)))
\* the file a path names
SameFile(p) == [p EXCEPT !.dir = resolve_dir(@, <<>>)]

\* os.path.exists / os.path.isfile / os.path.isdir on a path of the model
exists(p, files) == SameFile(p) \in files
isfile(p, files) == p.file # <<>> /\ SameFile(p) \in files
isdir(p) == p.file = <<>>

\* str.lower().endswith(('.jpg', '.jpeg'))
is_jpg(p) == p.ext \in {".jpg", ".jpeg", ".JPG", ".JPEG"}

\* str(n) for n >= 0, and str.zfill
Digit(n) == <<"0", "1", "2", "3", "4", "5", "6", "7", "8", "9">>[n + 1]
RECURSIVE str(_)
str(n) == IF n < 10 THEN <<Digit(n)>> ELSE str(n \div 10) \o <<Digit(n % 10)>>
RECURSIVE zfill(_, _)
zfill(s, width) == IF Len(s) >= width THEN s ELSE zfill(<<"0">> \o s, width)

\* The naming templates: literal text and replacement fields.
TPL_NAME == <<"{name}">>
TPL_NAME_OPTIMIZED == <<"{name}", "_optimized">>
TPL_NAME_OPT_DATE == <<"{name}", "_opt_", "{date}">>
TPL_DATE_NAME == <<"{date}", "_", "{name}">>
TPL_COUNTER_NAME == <<"optimized_", "{counter}", "_", "{name}">>
naming_options ==
    {TPL_NAME, TPL_NAME_OPTIMIZED, TPL_NAME_OPT_DATE, TPL_DATE_NAME, TPL_COUNTER_NAME}

\* What a user types into the combo box: a field str.format does not know,
\* or text without any field.
TPL_UNKNOWN_FIELD == <<"{name}", "_", "{size}">>
TPL_TEXT == <<"photo">>

Fields == {"{name}", "{date}", "{counter}", "{size}"}
\* str.format raises KeyError for a field that is not among its keywords
format_raises(template) ==
    \E k \in 1..Len(template) :
        template[k] \in Fields \ {"{name}", "{date}", "{counter}"}

\* datetime.now().strftime("%Y%m%d_%H%M%S") at t seconds after the run's start
strftime(t) == <<"20260101_00000">> \o str(t)

\* template.format(name=..., date=..., counter=...), when it does not raise
RECURSIVE format(_, _, _, _)
format(template, name, date, counter) ==
    IF template = <<>> THEN <<>>
    ELSE (CASE Head(template) = "{name}" -> name
            [] Head(template) = "{date}" -> date
            [] Head(template) = "{counter}" -> counter
            [] OTHER -> <<Head(template)>>)
         \o format(Tail(template), name, date, counter)

(***************************************************************************)
(* generate_output_path, in the steps at which other threads can           *)
(* interleave: the output directory, the counter, each existence check.    *)
(***************************************************************************)
\* for selected in self.selected_paths: ... break / else: output_folder
RECURSIVE preserved_dir(_, _, _)
preserved_dir(original_path, selected, folder) ==
    IF selected = <<>> THEN folder
    ELSE IF /\ isdir(Head(selected))
            /\ startswith(path_str(original_path), path_str(Head(selected)))
         THEN join(folder, relpath(original_path.dir, Head(selected).dir))
         ELSE preserved_dir(original_path, Tail(selected), folder)

output_dir_of(original_path) ==
    IF output_folder # <<>>
    THEN IF preserve_subfolders
         THEN preserved_dir(original_path, selected_paths, output_folder)
         ELSE output_folder
    ELSE original_path.dir

\* f"{name_part}_{counter}{ext}"
disambiguated(base_output, counter) ==
    [base_output EXCEPT !.file = @ \o <<"_">> \o str(counter)]

\* What run_optimization keeps of a future's result.
NoResult == [ok |-> FALSE, propagated |-> FALSE, original |-> 0, saved |-> 0]

\* executor.submit(self.optimize_file, f)
submit(f) ==
    [pc |-> "queued", src |-> f, output_dir |-> <<>>, counter_val |-> 0, date |-> 0,
     output_path |-> NoPath, base_output |-> NoPath, counter |-> 0,
     res |-> NoResult, collected |-> FALSE]

TaskIds == 1..Len(tasks)
Active(i) == tasks[i].pc \in {"counter", "resolve", "optimize"}

\* min(os.cpu_count() or 4, 8)
max_workers == Min(IF cpu_count = 0 THEN 4 ELSE cpu_count, 8)

\* the pool's workers run until the with-block is left
PoolRunning == run_pc \in {"pool", "crashed"}

\* os.makedirs(output_dir, exist_ok=True): the directory and its parents
makedirs(dirs, output_dir) ==
    dirs \cup {Take(resolve_dir(output_dir, <<>>), n) :
                   n \in 1..Len(resolve_dir(output_dir, <<>>))}

\* if self.overwrite_original.get(): return original_path
returns_original_path_never == FALSE
returns_original_path == overwrite_original

\* the latest reading of the clock in this run; time does not go back
RECURSIVE LastReading(_)
LastReading(n) ==
    IF n = 0 THEN 0
    ELSE LET r == LastReading(n - 1)
         IN  IF tasks[n].date > r THEN tasks[n].date ELSE r

\* A worker takes the next queued file and enters generate_output_path:
\* output directory, os.makedirs (which may fail, inside optimize_file's
\* try), and the early return when overwrite_original is set.
generate_output_path_dir(i) ==
    /\ PoolRunning
    /\ i \in TaskIds /\ tasks[i].pc = "queued"
    /\ \A j \in 1..(i - 1) : tasks[j].pc # "queued"
    /\ Cardinality({j \in TaskIds : Active(j)}) < max_workers
    /\ LET original_path == tasks[i].src
           output_dir == output_dir_of(original_path)
       IN  \E makedirs_ok \in (IF output_folder # <<>> THEN BOOLEAN ELSE {TRUE}) :
              IF ~makedirs_ok
              THEN /\ tasks' = [tasks EXCEPT ![i].pc = "done", ![i].res = NoResult]
                   /\ UNCHANGED disk_dirs
              ELSE /\ disk_dirs' = IF output_folder # <<>>
                                   THEN makedirs(disk_dirs, output_dir)
                                   ELSE disk_dirs
                   /\ tasks' = IF returns_original_path
                               THEN [tasks EXCEPT ![i].pc = "optimize",
                                                  ![i].output_path = original_path]
                               ELSE [tasks EXCEPT ![i].pc = "counter",
                                                  ![i].output_dir = output_dir]
    /\ UNCHANGED <<iccVars, fileVars, webVars, selected_paths, settingVars, is_processing,
                   file_counter, statVars, disk_files, cpu_count, runs, run_pc,
                   finish_pending>>

\* with self._counter_lock: self.file_counter += 1; counter_val = ...
\* then template.format(...), which reads the clock and may raise (inside
\* optimize_file's try), and os.path.join(output_dir, new_name + ext)
generate_output_path_counter(i) ==
    /\ PoolRunning
    /\ i \in TaskIds /\ tasks[i].pc = "counter"
    /\ file_counter' = file_counter + 1
    /\ \E now \in LastReading(Len(tasks))..MaxClock :
          LET counter_val == file_counter + 1
              new_name == format(naming_template, tasks[i].src.file, strftime(now),
                                 zfill(str(counter_val), 4))
              output_path == Path(tasks[i].output_dir, new_name, tasks[i].src.ext)
          IN  IF format_raises(naming_template)
              THEN tasks' = [tasks EXCEPT ![i].pc = "done",
                                          ![i].counter_val = counter_val,
                                          ![i].date = now,
                                          ![i].res = NoResult]
              ELSE tasks' = [tasks EXCEPT ![i].pc = "resolve",
                                          ![i].counter_val = counter_val,
                                          ![i].date = now,
                                          ![i].output_path = output_path,
                                          ![i].base_output = output_path,
                                          ![i].counter = 1]
    /\ UNCHANGED <<iccVars, fileVars, webVars, selected_paths, settingVars, is_processing,
                   statVars, disk_files, disk_dirs, cpu_count, runs, run_pc,
                   finish_pending>>

\* one evaluation of
\* while os.path.exists(output_path) and output_path != original_path
generate_output_path_check(i) ==
    /\ PoolRunning
    /\ i \in TaskIds /\ tasks[i].pc = "resolve"
    /\ LET t == tasks[i]
       IN  IF exists(t.output_path, disk_files) /\ t.output_path # t.src
           THEN tasks' = [tasks EXCEPT
                            ![i].output_path = disambiguated(t.base_output, t.counter),
                            ![i].counter = @ + 1]
           ELSE tasks' = [tasks EXCEPT ![i].pc = "optimize"]
    /\ UNCHANGED <<iccVars, fileVars, webVars, selected_paths, settingVars, is_processing,
                   file_counter, statVars, disk_files, disk_dirs, cpu_count, runs,
                   run_pc, finish_pending>>

\* What a file of the batch meets: the mode is read when the file is
\* processed, the tools are installed or not, a collaborator may fail.
BatchConfigs ==
    { [app |-> "desktop", mode |-> m, quality |-> 85, remove_metadata |-> FALSE,
       has_jpegtran |-> TRUE, has_mozjpeg |-> mz, use_mozjpeg |-> TRUE,
       same_path |-> FALSE] : m \in Modes, mz \in BOOLEAN }
BatchSources == { [exif |-> FALSE, icc |-> FALSE] }
BatchEnvs == [fault : {"none", "pil_open", "djpeg", "fs"}, enc : {OrigSize - 1}]

\* The rest of optimize_file on the resolved path: the mode's function and
\* the result tuple.  The destination exists afterwards if the pipeline
\* left a file there.
optimize_file_run(i) ==
    /\ PoolRunning
    /\ i \in TaskIds /\ tasks[i].pc = "optimize"
    /\ \E cfg \in BatchConfigs, src \in BatchSources, e \in BatchEnvs :
          LET same == tasks[i].output_path = tasks[i].src
              r == optimize_file([cfg EXCEPT !.same_path = same], src, e)
          IN  /\ tasks' = [tasks EXCEPT
                             ![i].pc = "done",
                             ![i].res = [ok |-> r.ok, propagated |-> r.propagated,
                                         original |-> r.original, saved |-> r.saved]]
              /\ disk_files' = IF Exists(r.out)
                               THEN disk_files \cup {SameFile(tasks[i].output_path)}
                               ELSE disk_files
    /\ UNCHANGED <<iccVars, fileVars, webVars, selected_paths, settingVars, is_processing,
                   file_counter, statVars, disk_dirs, cpu_count, runs, run_pc,
                   finish_pending>>

(***************************************************************************)
(* The run thread (run_optimization).                                      *)
(***************************************************************************)
\* a directory listing, in the order the file system gives it
RECURSIVE SetToSeq(_)
SetToSeq(S) ==
    IF S = {} THEN <<>>
    ELSE LET x == CHOOSE y \in S : TRUE IN <<x>> \o SetToSeq(S \ {x})

\* for root, _, files in os.walk(path): the .jpg/.jpeg files below path
walk(folder, files) ==
    SetToSeq({f \in files : Take(f.dir, Len(folder.dir)) = folder.dir /\ is_jpg(f)})

RECURSIVE find_jpg_files(_, _)
find_jpg_files(selected, files) ==
    IF selected = <<>> THEN <<>>
    ELSE (IF isfile(Head(selected), files)
          THEN IF is_jpg(Head(selected)) THEN <<Head(selected)>> ELSE <<>>
          ELSE IF isdir(Head(selected)) THEN walk(Head(selected), files)
          ELSE <<>>)
         \o find_jpg_files(Tail(selected), files)

\* jpg_files = self.find_jpg_files(); nothing found: finish at once;
\* otherwise total_count and one future per file.
run_optimization_find ==
    /\ run_pc = "find"
    /\ LET jpg_files == find_jpg_files(selected_paths, disk_files)
       IN  IF jpg_files = <<>>
           THEN /\ finish_pending' = TRUE
                /\ run_pc' = "ended"
                /\ UNCHANGED <<total_count, tasks>>
           ELSE /\ total_count' = Len(jpg_files)
                /\ tasks' = [i \in 1..Len(jpg_files) |-> submit(jpg_files[i])]
                /\ run_pc' = "pool"
                /\ UNCHANGED finish_pending
    /\ UNCHANGED <<iccVars, fileVars, webVars, selected_paths, settingVars, is_processing,
                   file_counter, processed_count, total_original, total_saved,
                   disk_files, disk_dirs, cpu_count, runs>>

\* for future in as_completed(futures): result = future.result(), which
\* raises again what the worker's function raised; processed_count += 1 and
\* the totals of a 4-tuple.
run_optimization_collect(i) ==
    /\ run_pc = "pool"
    /\ i \in TaskIds /\ tasks[i].pc = "done" /\ ~tasks[i].collected
    /\ tasks' = [tasks EXCEPT ![i].collected = TRUE]
    /\ IF tasks[i].res.propagated
       THEN /\ run_pc' = "crashed"
            /\ UNCHANGED <<processed_count, total_original, total_saved>>
       ELSE /\ processed_count' = processed_count + 1
            /\ total_original' = IF tasks[i].res.ok
                                 THEN total_original + tasks[i].res.original
                                 ELSE total_original
            /\ total_saved' = IF tasks[i].res.ok
                              THEN total_saved + tasks[i].res.saved
                              ELSE total_saved
            /\ UNCHANGED run_pc
    /\ UNCHANGED <<iccVars, fileVars, webVars, selected_paths, settingVars, is_processing,
                   file_counter, total_count, disk_files, disk_dirs, cpu_count, runs,
                   finish_pending>>

\* every future was yielded: the with-block ends and
\* self.root.after(0, self.finish_optimization)
run_optimization_finish ==
    /\ run_pc = "pool"
    /\ \A i \in TaskIds : tasks[i].collected
    /\ run_pc' = "ended"
    /\ finish_pending' = TRUE
    /\ UNCHANGED <<iccVars, fileVars, webVars, selected_paths, settingVars, is_processing,
                   file_counter, statVars, disk_files, disk_dirs, cpu_count, runs, tasks>>

(***************************************************************************)
(* The UI thread: one callback at a time.  The settings and the selection  *)
(* are changed between runs; "clear" is pressed at any time.               *)
(***************************************************************************)
RECURSIVE add_paths(_, _)
add_paths(selected, paths) ==
    IF paths = <<>> THEN selected
    ELSE add_paths(IF \E k \in 1..Len(selected) : selected[k] = Head(paths)
                   THEN selected ELSE Append(selected, Head(paths)),
                   Tail(paths))

\* what the file dialog returns: some files, each once
FileChoices ==
    {c \in SeqsUpTo(SourceFiles, MaxSelected) :
        c # <<>> /\ \A j, k \in 1..Len(c) : c[j] = c[k] => j = k}

Idle == ~is_processing /\ runs < MaxRuns

select_files ==
    /\ Idle
    /\ \E files \in FileChoices :
          /\ Len(add_paths(selected_paths, files)) <= MaxSelected
          /\ selected_paths' = add_paths(selected_paths, files)
    /\ UNCHANGED <<iccVars, fileVars, webVars, settingVars, is_processing, file_counter, statVars,
                   disk_files, disk_dirs, cpu_count, runs, run_pc, tasks, finish_pending>>

select_folder ==
    /\ Idle
    /\ \E folder \in Folders :
          /\ Len(add_paths(selected_paths, <<folder>>)) <= MaxSelected
          /\ selected_paths' = add_paths(selected_paths, <<folder>>)
    /\ UNCHANGED <<iccVars, fileVars, webVars, settingVars, is_processing, file_counter, statVars,
                   disk_files, disk_dirs, cpu_count, runs, run_pc, tasks, finish_pending>>

\* self.selected_paths.clear(); self.reset_results()
clear_selection ==
    /\ selected_paths' = <<>>
    /\ total_original' = 0 /\ total_saved' = 0 /\ processed_count' = 0
    /\ file_counter' = 0
    /\ UNCHANGED <<iccVars, fileVars, webVars, settingVars, is_processing, total_count,
                   disk_files, disk_dirs, cpu_count, runs, run_pc, tasks, finish_pending>>

select_output_folder ==
    /\ Idle
    /\ output_folder' = OutDir
    /\ UNCHANGED <<iccVars, fileVars, webVars, selected_paths, preserve_subfolders,
                   overwrite_original, naming_template, is_processing, file_counter,
                   statVars, disk_files, disk_dirs, cpu_count, runs, run_pc, tasks,
                   finish_pending>>

reset_output_folder ==
    /\ Idle
    /\ output_folder' = <<>>
    /\ UNCHANGED <<iccVars, fileVars, webVars, selected_paths, preserve_subfolders,
                   overwrite_original, naming_template, is_processing, file_counter,
                   statVars, disk_files, disk_dirs, cpu_count, runs, run_pc, tasks,
                   finish_pending>>

\* the check buttons and the naming combo box
toggle_preserve_subfolders ==
    /\ Idle
    /\ preserve_subfolders' = ~preserve_subfolders
    /\ UNCHANGED <<iccVars, fileVars, webVars, selected_paths, output_folder,
                   overwrite_original, naming_template, is_processing, file_counter,
                   statVars, disk_files, disk_dirs, cpu_count, runs, run_pc, tasks,
                   finish_pending>>

toggle_overwrite_original ==
    /\ Idle
    /\ overwrite_original' = ~overwrite_original
    /\ UNCHANGED <<iccVars, fileVars, webVars, selected_paths, output_folder,
                   preserve_subfolders, naming_template, is_processing, file_counter,
                   statVars, disk_files, disk_dirs, cpu_count, runs, run_pc, tasks,
                   finish_pending>>

\* The templates chosen or typed in the runs of Spec.
BatchTemplates == {TPL_NAME_OPTIMIZED, TPL_NAME_OPT_DATE, TPL_UNKNOWN_FIELD}

choose_naming_template ==
    /\ Idle
    /\ \E t \in BatchTemplates : naming_template' = t
    /\ UNCHANGED <<iccVars, fileVars, webVars, selected_paths, output_folder,
                   preserve_subfolders, overwrite_original, is_processing, file_counter,
                   statVars, disk_files, disk_dirs, cpu_count, runs, run_pc, tasks,
                   finish_pending>>

\* if self.is_processing: return
already_processing_unchecked == FALSE
already_processing == is_processing

\* Nothing selected: a warning and return.  A run in progress: return.
\* Otherwise is_processing, reset_results() and the run thread.  The runs
\* started are bounded; a press during a run is bounded one later.
start_optimization ==
    /\ selected_paths # <<>>
    /\ runs < MaxRuns + b2n(is_processing)
    /\ IF already_processing
       THEN UNCHANGED <<is_processing, total_original, total_saved, processed_count,
                        file_counter, runs, run_pc, tasks>>
       ELSE /\ is_processing' = TRUE
            /\ total_original' = 0 /\ total_saved' = 0 /\ processed_count' = 0
            /\ file_counter' = 0
            /\ runs' = runs + 1
            /\ run_pc' = "find"
            /\ tasks' = <<>>
    /\ UNCHANGED <<iccVars, fileVars, webVars, selected_paths, settingVars, total_count,
                   disk_files, disk_dirs, cpu_count, finish_pending>>

\* the callback queued by root.after(0, self.finish_optimization)
finish_optimization ==
    /\ finish_pending
    /\ finish_pending' = FALSE
    /\ is_processing' = FALSE
    /\ UNCHANGED <<iccVars, fileVars, webVars, selected_paths, settingVars, file_counter,
                   statVars, disk_files, disk_dirs, cpu_count, runs, run_pc, tasks>>

(***************************************************************************)
(* Spec: the desktop application, from its construction.                   *)
(***************************************************************************)
Init ==
    /\ ICCIdle /\ FileIdle /\ WebIdle
    /\ selected_paths = <<>>
    /\ output_folder = <<>>
    /\ preserve_subfolders = TRUE
    /\ overwrite_original = FALSE
    /\ naming_template = TPL_NAME_OPTIMIZED
    /\ is_processing = FALSE
    /\ file_counter = 0
    /\ processed_count = 0 /\ total_original = 0 /\ total_saved = 0 /\ total_count = 0
    /\ disk_files = SourceFiles
    /\ disk_dirs = {f.dir : f \in SourceFiles}
    /\ cpu_count \in 1..MaxCpu
    /\ runs = 0
    /\ run_pc = "none"
    /\ tasks = <<>>
    /\ finish_pending = FALSE

Next ==
    \/ select_files
    \/ select_folder
    \/ clear_selection
    \/ select_output_folder
    \/ reset_output_folder
    \/ toggle_preserve_subfolders
    \/ toggle_overwrite_original
    \/ choose_naming_template
    \/ start_optimization
    \/ finish_optimization
    \/ run_optimization_find
    \/ run_optimization_finish
    \/ \E i \in TaskIds :
          \/ run_optimization_collect(i)
          \/ generate_output_path_dir(i)
          \/ generate_output_path_counter(i)
          \/ generate_output_path_check(i)
          \/ optimize_file_run(i)

Spec == Init /\ [][Next]_vars

(***************************************************************************)
(* SpecResolve: the pool's workers on the files of one run, from the state *)
(* in which run_optimization has submitted them, for every selection,      *)
(* setting and template.                                                   *)
(***************************************************************************)
F3 == Path(<<"a">>, <<"photo", "_", "1">>, ".jpg")
ResolveFiles == {F1, F2, F3}
ResolveTemplates == naming_options \cup {TPL_UNKNOWN_FIELD, TPL_TEXT}

\* what add_paths has built: files and folders, each once
ResolveSelections ==
    {c \in SeqsUpTo(ResolveFiles \cup Folders, MaxSelected) :
        c # <<>> /\ \A j, k \in 1..Len(c) : c[j] = c[k] => j = k}

ResolveInit ==
    /\ ICCIdle /\ FileIdle /\ WebIdle
    /\ selected_paths \in ResolveSelections
    /\ output_folder \in {<<>>, OutDir}
    /\ preserve_subfolders \in BOOLEAN
    /\ overwrite_original \in BOOLEAN
    /\ naming_template \in ResolveTemplates
    /\ is_processing = TRUE
    /\ file_counter = 0
    /\ processed_count = 0 /\ total_original = 0 /\ total_saved = 0
    /\ disk_files = ResolveFiles
    /\ disk_dirs = {f.dir : f \in ResolveFiles}
    /\ cpu_count \in 1..MaxCpu
    /\ runs = 1
    /\ run_pc = "pool"
    /\ tasks = [i \in 1..Len(find_jpg_files(selected_paths, disk_files)) |->
                   submit(find_jpg_files(selected_paths, disk_files)[i])]
    /\ total_count = Len(tasks)
    /\ finish_pending = FALSE

ResolveNext ==
    \E i \in TaskIds :
        \/ generate_output_path_dir(i)
        \/ generate_output_path_counter(i)
        \/ generate_output_path_check(i)
        \/ optimize_file_run(i)

SpecResolve == ResolveInit /\ [][ResolveNext]_vars

(***************************************************************************)
(* SpecSibling: the same workers, on a selection among a folder, a sibling *)
(* folder whose name begins with the first one's name, and their files.    *)
(***************************************************************************)
F4 == Path(<<"ab">>, <<"photo">>, ".jpg")
DirAB == Path(<<"ab">>, <<>>, "")
SiblingFiles == {F1, F4}
SiblingTemplates == {TPL_NAME, TPL_NAME_OPTIMIZED}

SiblingSelections ==
    {c \in SeqsUpTo(SiblingFiles \cup {DirA, DirAB}, MaxSelected) :
        c # <<>> /\ \A j, k \in 1..Len(c) : c[j] = c[k] => j = k}

SiblingInit ==
    /\ ICCIdle /\ FileIdle /\ WebIdle
    /\ selected_paths \in SiblingSelections
    /\ output_folder \in {<<>>, OutDir}
    /\ preserve_subfolders \in BOOLEAN
    /\ overwrite_original \in BOOLEAN
    /\ naming_template \in SiblingTemplates
    /\ is_processing = TRUE
    /\ file_counter = 0
    /\ processed_count = 0 /\ total_original = 0 /\ total_saved = 0
    /\ disk_files = SiblingFiles
    /\ disk_dirs = {f.dir : f \in SiblingFiles}
    /\ cpu_count \in 1..MaxCpu
    /\ runs = 1
    /\ run_pc = "pool"
    /\ tasks = [i \in 1..Len(find_jpg_files(selected_paths, disk_files)) |->
                   submit(find_jpg_files(selected_paths, disk_files)[i])]
    /\ total_count = Len(tasks)
    /\ finish_pending = FALSE

SiblingNext ==
    \E i \in TaskIds :
        \/ generate_output_path_dir(i)
        \/ generate_output_path_counter(i)
        \/ generate_output_path_check(i)
        \/ optimize_file_run(i)

SpecSibling == SiblingInit /\ [][SiblingNext]_vars

(***************************************************************************)
(* Reading a stream back, as a consumer of the APP2 format does: scan the  *)
(* marker segments that follow Start-Of-Image, stop at the scan data, the  *)
(* end of the image or a malformed segment, and keep the APP2 segments     *)
(* that carry the 12-byte signature.                                       *)
(***************************************************************************)
RECURSIVE ScanSegments(_, _)
ScanSegments(b, pos) ==
    IF pos + 3 > Len(b) \/ b[pos] # 255 \/ b[pos + 1] \in {216, 217, 218} THEN <<>>
    ELSE LET L == b[pos + 2] * 256 + b[pos + 3]
         IN  IF L < 2 \/ pos + 1 + L > Len(b) THEN <<>>
             ELSE <<[marker |-> b[pos + 1], payload |-> SubSeq(b, pos + 4, pos + 1 + L)]>>
                  \o ScanSegments(b, pos + 2 + L)

IsICCSegment(s) ==
    /\ s.marker = 226
    /\ Len(s.payload) >= 14
    /\ SubSeq(s.payload, 1, 12) = ICC_SIG

ICCSegments(b) ==
    IF Len(b) < 2 \/ b[1] # 255 \/ b[2] # 216 THEN <<>>
    ELSE SelectSeq(ScanSegments(b, 3), IsICCSegment)

RECURSIVE ConcatData(_)
ConcatData(segs) ==
    IF segs = <<>> THEN <<>>
    ELSE SubSeq(Head(segs).payload, 15, Len(Head(segs).payload)) \o ConcatData(Tail(segs))

MaxSeqNo(segs) ==
    IF segs = <<>> THEN 0
    ELSE CHOOSE k \in 0..255 :
            /\ \E i \in 1..Len(segs) : segs[i].payload[13] = k
            /\ \A i \in 1..Len(segs) : segs[i].payload[13] <= k

\* the payloads of the ICC segments, concatenated in sequence-number order
RECURSIVE ConcatBySeq(_, _, _)
ConcatBySeq(segs, k, last) ==
    IF k > last THEN <<>>
    ELSE ConcatData(SelectSeq(segs, LAMBDA s : s.payload[13] = k))
         \o ConcatBySeq(segs, k + 1, last)

ReadProfile(b) ==
    LET segs == ICCSegments(b) IN ConcatBySeq(segs, 0, MaxSeqNo(segs))

StartsWithSOI(b) == Len(b) >= 2 /\ b[1] = 255 /\ b[2] = 216

ChunksNeeded(icc) == (Len(icc) + max_chunk_data - 1) \div max_chunk_data

InjectDone == icc_pc \in {"web", "desktop"}

\* C7 (as stated): for every non-empty profile and every byte string that
\* starts with FFD8, inject produces a result, and the payloads of the
\* result's APP2 ICC_PROFILE segments, concatenated in sequence-number order,
\* are exactly the injected profile.
C7_RoundTripEveryInput ==
    (InjectDone /\ icc_data # <<>> /\ StartsWithSOI(icc_jpeg))
        => (~icc_raised /\ ReadProfile(icc_ret) = icc_data)

\* C7 (amended): the same, for a profile that needs at most ByteLimit (255)
\* chunks and a byte string starting with FFD8 that carries no APP2
\* ICC_PROFILE segment of its own.
C7_RoundTrip ==
    (/\ InjectDone /\ icc_data # <<>> /\ StartsWithSOI(icc_jpeg)
     /\ ChunksNeeded(icc_data) <= ByteLimit
     /\ ICCSegments(icc_jpeg) = <<>>)
        => (~icc_raised /\ ReadProfile(icc_ret) = icc_data)

C7_Witness ==
    /\ icc_pc = "desktop"
    /\ StartsWithSOI(icc_jpeg) /\ Len(icc_jpeg) > 2 /\ ICCSegments(icc_jpeg) = <<>>
    /\ Len(icc_data) > max_chunk_data
    /\ icc_written
    /\ Len(ICCSegments(icc_ret)) = ByteLimit
    /\ ReadProfile(icc_ret) = icc_data

\* C8: inject applied to bytes that do not start with FFD8 returns them
\* unchanged (desktop: the file is not written), for every profile, and
\* raises nothing.
C8_NonJpegUnchanged ==
    (InjectDone /\ ~StartsWithSOI(icc_jpeg))
        => (~icc_raised /\ icc_ret = icc_jpeg /\ ~icc_written)

C8_Witness ==
    /\ icc_pc = "desktop"
    /\ Len(icc_jpeg) >= 2 /\ icc_jpeg[1] = 255 /\ icc_jpeg[2] # 216
    /\ ChunksNeeded(icc_data) > ByteLimit
    /\ icc_ret = icc_jpeg /\ ~icc_raised

\* The length in bytes of the first n segments of a scanned stream.
RECURSIVE SegmentsLen(_, _)
SegmentsLen(segs, n) ==
    IF n = 0 THEN 0 ELSE 4 + Len(segs[n].payload) + SegmentsLen(segs, n - 1)

\* C9: whenever inject embeds a profile, the result is Start-Of-Image, then
\* a block of APP2 ICC_PROFILE segments whose chunks hold at most
\* max_chunk_data bytes, which all carry the same total, at most ByteLimit
\* (255), and the sequence numbers 1, 2, ..., total in this order, then the
\* input's bytes after Start-Of-Image, unchanged.
C9_ChunkBlock ==
    (InjectDone /\ icc_data # <<>> /\ StartsWithSOI(icc_jpeg) /\ ~icc_raised)
        => LET segs == ScanSegments(icc_ret, 3)
               total == IF segs = <<>> THEN 0 ELSE segs[1].payload[14]
           IN  /\ StartsWithSOI(icc_ret)
               /\ segs # <<>>
               /\ IsICCSegment(segs[1])
               /\ total >= 1 /\ total <= ByteLimit /\ total <= Len(segs)
               /\ \A i \in 1..total :
                     /\ IsICCSegment(segs[i])
                     /\ segs[i].payload[13] = i
                     /\ segs[i].payload[14] = total
                     /\ Len(segs[i].payload) - 14 <= max_chunk_data
               /\ Drop(icc_ret, 2 + SegmentsLen(segs, total)) = Drop(icc_jpeg, 2)

C9_Witness ==
    /\ icc_pc = "web"
    /\ StartsWithSOI(icc_jpeg) /\ Len(icc_jpeg) > 2
    /\ ChunksNeeded(icc_data) = ByteLimit
    /\ ~icc_raised
    /\ Len(icc_ret) = Len(icc_jpeg) + Len(icc_data) + 18 * ByteLimit

(***************************************************************************)
(* Claims about the per-file pipeline (SpecFile).                          *)
(***************************************************************************)
FileSucceeded == f_pc = "done" /\ f_res.ok
\* ... and no collaborator failed on the way
FileSucceededCleanly == FileSucceeded /\ f_env.fault = "none"

\* C1: every file that ends in a success result, in each mode and on each
\* encoder path, leaves at most the original size at the destination, and
\* its reported bytes saved is not negative.  Stated for the runs in which
\* no collaborator fails, which the claim includes.
C1_SizeGuardInvariant ==
    FileSucceededCleanly => (f_res.out.size <= OrigSize /\ f_res.saved >= 0)

\* The profile could not be read from the source although it carries one.
ExtractionFailed == f_src.icc /\ f_env.fault \in {"pil_open", "icc_read"}

C6_ExifIffKept ==
    FileSucceededCleanly => (f_res.out.exif <=> (~f_cfg.remove_metadata /\ f_src.exif))

\* C10: whenever the candidate's size after metadata repair is at least the
\* original size, the candidate is discarded, the destination holds the
\* original bytes, nothing is copied when destination and source are one
\* path, and the bytes saved is reported as 0.  Stated for the runs in which
\* no collaborator fails, which the claim includes.
C10_SizeGuardAction ==
    (FileSucceededCleanly /\ f_res.new_size >= OrigSize)
        => /\ f_res.out = original_content(f_src)
           /\ ~Exists(f_res.disk.tmp)
           /\ f_res.saved = 0
           /\ (f_cfg.same_path => ~f_res.copied)


(***************************************************************************)
(* Claims about the desktop batch (Spec).                                  *)
(***************************************************************************)
\* generate_output_path has returned a destination for file i
Returned(i) == tasks[i].pc \in {"optimize", "done"} /\ tasks[i].output_path # NoPath

\* C2: in one run with overwrite_original unset, the destinations that
\* generate_output_path returned for different source files name pairwise
\* different files, whatever the pool size and the order of the workers'
\* existence checks and writes.
C2_DistinctDestinations ==
    ~overwrite_original =>
        \A i, j \in TaskIds :
            (i < j /\ Returned(i) /\ Returned(j) /\ tasks[i].src # tasks[j].src)
                => SameFile(tasks[i].output_path) # SameFile(tasks[j].output_path)

\* C3: within one run no value of the shared counter is handed to two
\* files, whatever the order of the workers and of the other operations that
\* write the counter (a counter that only increases hands out no value twice).
C3_CounterUnique ==
    \A i, j \in TaskIds :
        (i < j /\ tasks[i].counter_val > 0 /\ tasks[j].counter_val > 0)
            => tasks[i].counter_val # tasks[j].counter_val

\* a step of the batch: a worker's or the run thread's
BatchStep ==
    \/ run_optimization_finish
    \/ \E i \in TaskIds :
          \/ run_optimization_collect(i)
          \/ generate_output_path_dir(i)
          \/ generate_output_path_counter(i)
          \/ generate_output_path_check(i)
          \/ optimize_file_run(i)

\* C4: a file's failure is that file's failure outcome and nothing else:
\* nothing is raised into the run thread, which never dies on a result; a
\* failure outcome reports no sizes; while the batch is in the pool some
\* worker or the run thread can take a step; and when the run thread ends
\* every file of the batch has its outcome, which has been aggregated.
C4_FailureIsolated ==
    /\ run_pc # "crashed"
    /\ \A i \in TaskIds :
          tasks[i].pc = "done" =>
              /\ ~tasks[i].res.propagated
              /\ ~tasks[i].res.ok => (tasks[i].res.original = 0 /\ tasks[i].res.saved = 0)
    /\ run_pc = "pool" => ENABLED BatchStep
    /\ run_pc = "ended" =>
          \A i \in TaskIds : tasks[i].pc = "done" /\ tasks[i].collected

\* a finished run of two files: the first failed after its destination was
\* resolved, the second was optimized and its saving counted
C4_Witness ==
    /\ run_pc = "ended" /\ Len(tasks) = 2
    /\ tasks[1].pc = "done" /\ ~tasks[1].res.ok /\ tasks[1].output_path # NoPath
    /\ tasks[2].pc = "done" /\ tasks[2].res.ok /\ tasks[2].res.saved > 0
    /\ processed_count = 2
    /\ total_original = OrigSize /\ total_saved = tasks[2].res.saved

(***************************************************************************)
(* Claims about failures and temporary files in the per-file pipeline      *)
(* (SpecFile).                                                             *)
(***************************************************************************)
\* An external tool was invoked for the file and exited non-zero or timed out.
ToolInvocationFailed ==
    /\ f_pc = "done"
    /\ \/ /\ f_cfg.mode = MODE_LOSSLESS /\ f_cfg.has_jpegtran
          /\ f_env.fault = "jpegtran"
       \/ /\ f_cfg.mode # MODE_LOSSLESS
          /\ IF f_cfg.app = "desktop" THEN external_encoder(f_cfg) ELSE f_cfg.has_mozjpeg
          /\ f_env.fault \in {"djpeg", "cjpeg"}

\* what is at the destination path before the file is processed
DestinationBefore ==
    IF f_cfg.same_path THEN original_content(f_src) ELSE Absent

MetadataFailure == f_env.fault \in {"icc_read", "exif", "inject"}

\* C12: a failure while reading or writing ICC or EXIF metadata (also a
\* profile that needs more than 255 chunks) never makes the file fail: the
\* file ends in a success outcome.  Stated for the desktop pipeline, which
\* the claim includes.
C12_MetadataFailureNeverFails ==
    (f_pc = "done" /\ f_cfg.app = "desktop" /\ MetadataFailure) => f_res.ok

\* C13: after a file's processing has ended, by success, by size-guard
\* rejection or by a failure at any step, neither the '.tmp' candidate nor
\* the '.ppm' intermediate created for it remains on disk, on every encoder
\* path.
C13_NoTemporaryLeft ==
    f_pc = "done" => (~Exists(f_res.disk.tmp) /\ ~Exists(f_res.disk.ppm))

(***************************************************************************)
(* Claims about output-path resolution (SpecResolve).                      *)
(***************************************************************************)
\* generate_output_path returns for file i in this step, from its loop
ReturnsFromLoop(i) == tasks[i].pc = "resolve" /\ tasks'[i].pc = "optimize"

\* C14: when generate_output_path returns and the template-expanded
\* destination exists and differs from the source path, the path returned is
\* base_k for a k >= 1, it does not exist on disk at this moment, and
\* base_1 .. base_(k-1) all exist.
C14_SmallestFreeDisambiguator ==
    [][\A i \in TaskIds :
          (/\ ReturnsFromLoop(i)
           /\ exists(tasks[i].base_output, disk_files)
           /\ tasks[i].base_output # tasks[i].src)
          => LET k == tasks[i].counter - 1
             IN  /\ k >= 1
                 /\ tasks'[i].output_path = disambiguated(tasks[i].base_output, k)
                 /\ ~exists(tasks'[i].output_path, disk_files)
                 /\ \A j \in 1..(k - 1) :
                       exists(disambiguated(tasks[i].base_output, j), disk_files)
      ]_vars

ResolveStep ==
    \E i \in TaskIds :
        \/ generate_output_path_dir(i)
        \/ generate_output_path_counter(i)
        \/ generate_output_path_check(i)

\* C16: no step of generate_output_path creates, changes or deletes a file
\* or a directory, in every configuration, also with overwrite_original set
\* and an output folder chosen.
C16_ResolveLeavesDisk ==
    [][ResolveStep => UNCHANGED <<disk_files, disk_dirs>>]_vars

(***************************************************************************)
(* Claims about the run (Spec).                                            *)
(***************************************************************************)
\* the template of file i was expanded
Expanded(i) == tasks[i].pc \in {"resolve", "optimize", "done"} /\ tasks[i].base_output # NoPath

HasDateField == \E k \in 1..Len(naming_template) : naming_template[k] = "{date}"

\* C17: all files whose template is expanded in one run receive the same
\* value for {date}, however long the run lasts and in whatever order the
\* workers resolve their paths.
C17_OneDatePerRun ==
    HasDateField =>
        \A i, j \in TaskIds :
            (Expanded(i) /\ Expanded(j)) => tasks[i].date = tasks[j].date

\* C18: in a run whose naming template has a field str.format does not
\* know, the run is aborted before any file is processed: no worker takes a
\* file, no counter value is consumed and nothing is created on disk.
C18_InvalidTemplateAbortsRun ==
    (is_processing /\ format_raises(naming_template)) =>
        /\ \A i \in TaskIds : tasks[i].pc = "queued"
        /\ file_counter = 0
        /\ disk_files = SourceFiles
        /\ disk_dirs = {f.dir : f \in SourceFiles}

(***************************************************************************)
(* Further claims about the per-file pipeline (SpecFile).                  *)
(***************************************************************************)
Logged(step) == \E k \in 1..Len(f_res.log) : f_res.log[k] = step

\* C19: in Lossless mode without the transcoder, in the desktop and in the
\* web pipeline, the file is decoded and encoded again by the image library
\* at quality 100, and a candidate that is kept carries EXIF if and only if
\* remove_metadata is false and the source has it, and the ICC profile if and
\* only if the source has one (the rules of the transcoder path).  Stated
\* for the runs in which no collaborator fails.
C19_LosslessFallback ==
    (FileSucceededCleanly /\ f_cfg.mode = MODE_LOSSLESS /\ ~f_cfg.has_jpegtran) =>
        /\ Logged("save")
        /\ f_res.new_size < OrigSize =>
              /\ f_res.out.pix = "pillow" /\ f_res.out.q = 100
              /\ f_res.out.exif <=> (~f_cfg.remove_metadata /\ f_src.exif)
              /\ f_res.out.icc <=> f_src.icc

\* C20 (what a finished run has counted): when the run thread has collected
\* every future and leaves the pool, each of the N files has exactly one
\* outcome and processed_count equals N.
C20_RunEndsWithAllCounted ==
    [][run_optimization_finish =>
          /\ \A i \in TaskIds : tasks[i].pc = "done" /\ tasks[i].collected
          /\ processed_count = Len(tasks)
      ]_vars

\* the same file through Balanced mode at quality 70
BalancedAt70 ==
    IF f_cfg.app = "desktop"
    THEN optimize_file([f_cfg EXCEPT !.mode = MODE_BALANCED, !.quality = 70], f_src, f_env)
    ELSE web_optimize_file([f_cfg EXCEPT !.mode = MODE_BALANCED, !.quality = 70],
                           f_src, f_env)

\* C21: a file processed in Maximum mode ends as the same file processed in
\* Balanced mode at quality 70: the same steps, the same outcome, the same
\* destination content and the same bytes saved, for every input, value of
\* remove_metadata and encoder availability.
C21_MaximumIsBalanced70 ==
    (f_pc = "done" /\ f_cfg.mode = MODE_MAXIMUM) =>
        /\ f_res.ok = BalancedAt70.ok
        /\ f_res.log = BalancedAt70.log
        /\ f_res.out = BalancedAt70.out
        /\ f_res.saved = BalancedAt70.saved

\* the destination holds what an encoder produced for this file
CandidateKept == FileSucceededCleanly /\ f_res.out.pix \in {"pillow", "cjpeg"}

\* C22: on every lossy encode, in every mode and on every encoder path
\* (also the Lossless fallback at quality 100), the encoder is asked for
\* 4:4:4 chroma without sharpening when quality >= 90, and for 4:2:0 chroma
\* after the unsharp mask when quality < 90.
C22_ChromaAndSharpening ==
    CandidateKept =>
        IF f_res.out.q >= 90
        THEN f_res.out.sub = "444" /\ ~f_res.out.sharp
        ELSE f_res.out.sub = "420" /\ f_res.out.sharp

\* the position of a step in the file's log, 0 when it was not taken
RECURSIVE IndexOf(_, _, _)
IndexOf(log, step, k) ==
    IF k > Len(log) THEN 0
    ELSE IF log[k] = step THEN k ELSE IndexOf(log, step, k + 1)
StepAt(step) == IndexOf(f_res.log, step, 1)

\* an external tool worked on the file
ExternalToolPath ==
    /\ f_pc = "done"
    /\ \E tool \in {"jpegtran", "djpeg", "cjpeg"} : StepAt(tool) > 0

\* C23: on the external-tool paths the ICC profile is extracted from the
\* original before any decode or transcode step, and ICC injection, when it
\* happens, comes after every tool step and after EXIF insertion and before
\* the size comparison, which measures the candidate with its profile.
C23_StepOrder ==
    ExternalToolPath =>
        /\ StepAt("extract_icc") > 0
        /\ \A tool \in {"jpegtran", "djpeg", "cjpeg"} :
              StepAt(tool) > 0 => StepAt("extract_icc") < StepAt(tool)
        /\ StepAt("inject_icc") > 0 =>
              /\ \A step \in {"jpegtran", "djpeg", "cjpeg", "exif"} :
                    StepAt(step) < StepAt("inject_icc")
              /\ StepAt("getsize") > 0 =>
                    /\ StepAt("inject_icc") < StepAt("getsize")
                    /\ f_res.ok => f_res.new_size = f_env.enc + 1 + b2n(StepAt("exif") > 0
                                                                      /\ f_src.exif
                                                                      /\ f_env.fault # "exif")

C23_Witness ==
    /\ ExternalToolPath
    /\ f_cfg.app = "desktop" /\ f_cfg.mode = MODE_BALANCED /\ ~f_cfg.remove_metadata
    /\ f_src.exif /\ f_src.icc /\ f_env.fault = "none"
    /\ f_res.log = <<"extract_icc", "djpeg", "cjpeg", "exif", "inject_icc", "getsize",
                    "move", "remove_ppm">>
    /\ f_res.ok /\ f_res.out.icc /\ f_res.out.exif
    /\ f_res.new_size = f_env.enc + 2

(***************************************************************************)
(* Further claims about the run (Spec).                                    *)
(***************************************************************************)
\* the sum of a field over the successful outcomes aggregated so far
RECURSIVE AggregatedOriginal(_)
AggregatedOriginal(n) ==
    IF n = 0 THEN 0
    ELSE AggregatedOriginal(n - 1)
         + (IF tasks[n].collected /\ tasks[n].res.ok THEN tasks[n].res.original ELSE 0)
RECURSIVE AggregatedSaved(_)
AggregatedSaved(n) ==
    IF n = 0 THEN 0
    ELSE AggregatedSaved(n - 1)
         + (IF tasks[n].collected /\ tasks[n].res.ok THEN tasks[n].res.saved ELSE 0)

\* C24: in every state of a run, processed_count is the number of outcomes
\* aggregated so far, and total_original and total_saved are the sums of the
\* original sizes and of the bytes saved over the successful outcomes
\* aggregated so far, under every interleaving of worker completions and
\* UI-thread operations.
C24_TotalsMatchOutcomes ==
    (is_processing /\ run_pc = "pool") =>
        /\ processed_count = Cardinality({i \in TaskIds : tasks[i].collected})
        /\ total_original = AggregatedOriginal(Len(tasks))
        /\ total_saved = AggregatedSaved(Len(tasks))


(***************************************************************************)
(* Further claims about output-path resolution (SpecResolve).              *)
(***************************************************************************)
\* the files submitted before file i that reach the counter: os.makedirs did
\* not fail for them
ReachesCounterBefore(i) ==
    {j \in 1..(i - 1) :
        \/ tasks[j].pc \in {"counter", "resolve", "optimize"}
        \/ tasks[j].pc = "done" /\ tasks[j].counter_val > 0}

\* the destination of file i when the files are resolved one after the other
\* in submission order (a pool of one worker), under the counter template
SequentialDestination(i) ==
    Path(tasks[i].output_dir,
         format(TPL_COUNTER_NAME, tasks[i].src.file, <<>>,
                zfill(str(1 + Cardinality(ReachesCounterBefore(i))), 4)),
         tasks[i].src.ext)

\* C25: output-path resolution is deterministic: for a fixed configuration,
\* selection and initial file system, the destination assigned to each source
\* is the same under every scheduling of the workers and every pool size.
\* Stated for the counter template, whose destinations do not depend on the
\* clock or on files written during the run: every destination returned is
\* the one a pool of one worker assigns.
C25_DeterministicDestinations ==
    \A i \in TaskIds :
        (Returned(i) /\ naming_template = TPL_COUNTER_NAME /\ ~overwrite_original)
            => tasks[i].output_path = SequentialDestination(i)
\* with one worker the destinations are the sequential ones
OneWorkerIsSequential == cpu_count = 1 => C25_DeterministicDestinations


(***************************************************************************)
(* Further claims about the run (Spec), continued.                         *)
(***************************************************************************)
\* a run thread is alive, or its finish_optimization is still queued
RunActive == run_pc \in {"find", "pool", "crashed"} \/ finish_pending

\* C26: at most one batch run is active at any time: is_processing is true
\* from start_optimization until finish_optimization, and a
\* start_optimization issued while it is true starts no second run thread
\* and resets no state.
C26_OneRunAtATime ==
    /\ [](RunActive => is_processing)
    /\ [][/\ (is_processing /\ start_optimization) => UNCHANGED vars
          /\ runs' # runs => (~is_processing /\ ~RunActive /\ is_processing')
          /\ (is_processing /\ ~is_processing') => finish_pending]_vars
C26_Witness ==
    /\ runs = 1 /\ is_processing /\ run_pc = "pool"
    /\ \E i \in TaskIds : tasks[i].collected
    /\ \E i \in TaskIds : ~tasks[i].collected
    /\ ENABLED start_optimization


(***************************************************************************)
(* Claims about the output directory (SpecSibling).                        *)
(***************************************************************************)
\* the directory a path names lies in folder or below it
inside(dir, folder) ==
    LET d == resolve_dir(dir, <<>>)
    IN  Len(folder) <= Len(d) /\ Take(d, Len(folder)) = folder

\* C27: with an output folder set and overwrite unset, every destination
\* generate_output_path returns lies inside the output folder, for every set
\* of selected paths (a selected folder whose path is a string prefix of a
\* sibling folder's path included) and both values of preserve_subfolders.
C27_DestinationInsideOutputFolder ==
    \A i \in TaskIds :
        (Returned(i) /\ output_folder # <<>> /\ ~overwrite_original)
            => inside(tasks[i].output_path.dir, output_folder)


(***************************************************************************)
(* Claims about the files of a run (Spec).                                  *)
(***************************************************************************)
\* C28: in one run each JPEG file on disk is submitted to the pool at most
\* once, for every combination of selected files and folders (a file
\* selected together with a folder that contains it included).
C28_SubmittedOnce ==
    \A i, j \in TaskIds : tasks[i].src = tasks[j].src => i = j


(***************************************************************************)
(* Further claims about output-path resolution (SpecResolve), continued.   *)
(***************************************************************************)
\* C29: with overwrite unset, generate_output_path returns the source path
\* itself only when the template-expanded name in the chosen directory is
\* already the source's own path; the disambiguation loop never ends on the
\* source path.
C29_SourceOnlyAsFirstCandidate ==
    \A i \in TaskIds :
        (Returned(i) /\ ~overwrite_original /\ tasks[i].output_path = tasks[i].src)
            => tasks[i].base_output = tasks[i].src


(***************************************************************************)
(* Claims about the web application's batch (SpecWeb).                     *)
(***************************************************************************)
RECURSIVE sum_original_size(_)
sum_original_size(rs) ==
    IF rs = <<>> THEN 0 ELSE Head(rs).original_size + sum_original_size(Tail(rs))
RECURSIVE sum_saved(_)
sum_saved(rs) == IF rs = <<>> THEN 0 ELSE Head(rs).saved + sum_saved(Tail(rs))

\* C30: after any batch, one in which some files fail after being read
\* included, the stored totals agree with the per-file results: the stored
\* total_original is the sum of original_size over the stored results, and
\* total_original - total_optimized is the sum of saved over them.
C30_StoredTotalsAgree ==
    web_pc = "stored" =>
        /\ session_state.total_original = sum_original_size(session_state.results)
        /\ session_state.total_original - session_state.total_optimized
               = sum_saved(session_state.results)
\* a batch without a failure after the read keeps the totals in agreement
NoFailureAfterRead ==
    (\A k \in 1..Len(uploaded_files) :
         uploaded_files[k].env.fault \in {"none", "read"}) => C30_StoredTotalsAgree

=============================================================================
